---- MODULE Spec2Model ----
(***************************************************************************)
(* The voice-capture session controller of BoltVoice2Canvas: the hook      *)
(* useSpeechRecognition (src/src/hooks/useSpeechRecognition.ts) and the    *)
(* toggle of VoiceRecorder (src/src/components/VoiceRecorder.tsx).         *)
(*                                                                         *)
(* Every call of startListening that passes the support check is a         *)
(* "start" p.  It first awaits the microphone permission, and when that    *)
(* is granted it creates one SpeechRecognition object, which is identified *)
(* by the same number p.  The browser then raises the events start,        *)
(* result, error and end on that object, in an order the page does not     *)
(* control.  Strings are sequences of tokens, so that concatenation is \o. *)
(***************************************************************************)
EXTENDS Integers, Sequences, FiniteSets, TLC

\* ---------------------------------------------------------------- bounds
MaxStarts == 2      \* startListening calls that pass the support check
MaxBatch == 2       \* results in one result event (resultIndex .. length-1)
MaxFinals == 2      \* final results written to the history between two resets
MaxTracks == 2      \* tracks of the stream getUserMedia resolves with

Starts == 1..MaxStarts

\* ------------------------------------------------------- program constants
NoHandle == 0       \* recognitionRef.current = null
NoError == <<>>     \* error = null (no code path stores an empty message)

\* The messages of the hook, word by word.
MsgUnsupported ==
    <<"Speech", "recognition", "is", "not", "supported", "in", "this",
      "browser", ".", "Please", "use", "Chrome", ",", "Edge", ",", "or",
      "Safari", ".">>
MsgMicNoGetUserMedia ==
    <<"Microphone", "access", "is", "not", "supported", "in", "this",
      "browser">>
MsgMicDenied ==
    <<"Microphone", "access", "denied", ".", "Please", "allow",
      "microphone", "access", "and", "try", "again", ".">>
MsgMicNotFound ==
    <<"No", "microphone", "found", ".", "Please", "connect", "a",
      "microphone", "and", "try", "again", ".">>
MsgMicNotSupported ==
    <<"Microphone", "access", "is", "not", "supported", "in", "this",
      "browser", ".">>
MsgMicFailed ==
    <<"Failed", "to", "access", "microphone", ".", "Please", "check",
      "your", "browser", "settings", ".">>
MsgStartFailed ==
    <<"Failed", "to", "start", "speech", "recognition", ".", "Please",
      "try", "again", ".">>
MsgErrNotAllowed ==
    <<"Microphone", "access", "denied", ".", "Please", "allow",
      "microphone", "access", "in", "your", "browser", "settings", "and",
      "try", "again", ".">>
MsgErrNoSpeech ==
    <<"No", "speech", "detected", ".", "Please", "speak", "clearly", "and",
      "try", "again", ".">>
MsgErrAudioCapture ==
    <<"No", "microphone", "found", ".", "Please", "connect", "a",
      "microphone", "and", "try", "again", ".">>
MsgErrNetwork ==
    <<"Network", "error", "occurred", ".", "Please", "check", "your",
      "internet", "connection", ".">>
MsgErrService ==
    <<"Speech", "recognition", "service", "not", "allowed", ".", "Please",
      "try", "again", ".">>
MsgErrGrammar ==
    <<"Speech", "recognition", "grammar", "error", ".", "Please", "try",
      "again", ".">>
MsgErrLanguage ==
    <<"Language", "not", "supported", ".", "Please", "try", "again", ".">>
MsgErrOther(code) ==
    <<"Speech", "recognition", "error", ":">> \o code
        \o <<".", "Please", "try", "again", ".">>

\* ------------------------------------------------------------ the inputs
\* err.name of a rejected getUserMedia.
PlatformReasons ==
    {"NotAllowedError", "NotFoundError", "NotSupportedError", "AbortError"}

\* event.error of an error event.
ErrorCodes ==
    {<<"not-allowed">>, <<"no-speech">>, <<"audio-capture">>, <<"network">>,
     <<"service-not-allowed">>, <<"bad-grammar">>,
     <<"language-not-supported">>, <<"aborted">>}

\* err.message of an exception thrown by the SpeechRecognition constructor
\* or by recognition.start(): text the browser chooses.  The first one is
\* the empty message.
ThrownMessages ==
    {<<>>, <<"recognition", "has", "already", "started">>,
     <<"Permission", "denied">>}

\* One SpeechRecognitionResult: isFinal, result[0].transcript and
\* result[0].confidence (in hundredths): a final one and an interim one.
Results ==
    {[isFinal |-> TRUE, text |-> "sun", conf |-> 92],
     [isFinal |-> FALSE, text |-> "over", conf |-> 50]}

\* The results a result event hands to the handler: event.results from
\* event.resultIndex on.
Batches == UNION {[1..n -> Results] : n \in 1..MaxBatch}

\* navigator.userAgent of the browsers the page runs in, as the product
\* tokens of the string, with the browser that sends it. EdgeHTML sends
\* '... Chrome/x Safari/x Edge/x', the Edge built on Chromium
\* '... Chrome/x Safari/x Edg/x'.
Browsers ==
    { [family |-> "Chrome",
       agent |-> <<"Mozilla", "AppleWebKit", "Chrome", "Safari">>],
      [family |-> "Firefox",
       agent |-> <<"Mozilla", "Gecko", "Firefox">>],
      [family |-> "Safari",
       agent |-> <<"Mozilla", "AppleWebKit", "Version", "Safari">>],
      [family |-> "Edge",
       agent |-> <<"Mozilla", "AppleWebKit", "Chrome", "Safari", "Edge">>],
      [family |-> "Edge",
       agent |-> <<"Mozilla", "AppleWebKit", "Chrome", "Safari", "Edg">>],
      [family |-> "your browser",
       agent |-> <<"Opera", "Presto", "Version">>] }

UserAgents == {b.agent : b \in Browsers}

\* The agent string of the browser the hook's specifications run in; the
\* hook never reads it.
ChromeAgent == <<"Mozilla", "AppleWebKit", "Chrome", "Safari">>

\* ------------------------------------------------------------- the state
VARIABLES
    isSupported,        \* window has SpeechRecognition or webkitSpeechRecognition
    hasMediaDevices,    \* navigator.mediaDevices.getUserMedia exists
    userAgent,          \* navigator.userAgent
    isListening,        \* useState(false)
    transcript,         \* useState('')
    confidence,         \* useState(0)
    error,              \* useState(null)
    recognitionRef,     \* useRef(null): NoHandle or the start that made the object
    sess,               \* per start: where the call, and then its recognizer, is
    recvFinals,         \* history: texts of the final results delivered since
                        \* the last reset (written in SpecRecorded only)
    lastInterim,        \* history: text of the latest interim result since the
                        \* last reset (written in SpecRecorded only)
    lastFinal,          \* history: the confidence of the latest final result
                        \* since the last reset, <<>> when there is none
    mounted,            \* VoiceRecorder, which calls the hook, is mounted
    showPermissionHelp, \* useState(false) of VoiceRecorder
    lastNotified,       \* the transcript of the latest onTranscriptChange call
    liveTracks          \* tracks of the streams of checkMicrophonePermission
                        \* that have not been stopped

vars ==
    <<isSupported, hasMediaDevices, userAgent, isListening, transcript,
      confidence, error, recognitionRef, sess, recvFinals, lastInterim, lastFinal,
      mounted, showPermissionHelp, lastNotified, liveTracks>>

hookState == <<isListening, transcript, confidence, error>>
environment == <<isSupported, hasMediaDevices, userAgent>>
history == <<recvFinals, lastInterim>>
component == <<mounted, showPermissionHelp>>

\* phase of a start:
\*   unused    startListening not called yet
\*   perm      suspended at await checkMicrophonePermission()
\*   starting  recognition.start() returned, no start event yet
\*   running   the start event was raised
\*   errored   the error event was raised, the end event is still to come
\*   done      the call is over and its recognizer, if it made one, raises
\*             no more events: the permission check threw, the constructor
\*             or recognition.start() threw, or the end event was raised
\* stopped: "no", or how stopListening found the hook when it was called on
\* this start ("listening" or "idle"); while perm: called during the await.
\* It is kept as long as the start is not done.
Phases == {"unused", "perm", "starting", "running", "errored", "done"}

StopMarks == {"no", "idle", "listening"}

Session(ph, st) == [phase |-> ph, stopped |-> st]

TypeOK ==
    /\ isSupported \in BOOLEAN
    /\ hasMediaDevices \in BOOLEAN
    /\ userAgent \in UserAgents
    /\ isListening \in BOOLEAN
    /\ transcript \in Seq({"sun", "over"})
    /\ confidence \in {0, 92}
    /\ error \in Seq(STRING)
    /\ recognitionRef \in {NoHandle} \cup Starts
    /\ sess \in [Starts -> [phase : Phases, stopped : StopMarks]]
    /\ recvFinals \in Seq({"sun"})
    /\ lastInterim \in Seq({"over"})
    /\ lastFinal \in {<<>>, <<92>>}
    /\ mounted \in BOOLEAN
    /\ showPermissionHelp \in BOOLEAN
    /\ lastNotified \in Seq({"sun", "over"})
    /\ liveTracks \in Nat

InitState ==
    /\ isSupported \in BOOLEAN
    /\ hasMediaDevices \in BOOLEAN
    /\ isListening = FALSE
    /\ transcript = <<>>
    /\ confidence = 0
    /\ error = NoError
    /\ recognitionRef = NoHandle
    /\ sess = [p \in Starts |-> Session("unused", "no")]
    /\ recvFinals = <<>>
    /\ lastInterim = <<>>
    /\ lastFinal = <<>>
    /\ mounted = TRUE
    /\ showPermissionHelp = FALSE
    /\ lastNotified = <<>>
    /\ liveTracks = 0

\* The page in one browser.
Init == InitState /\ userAgent = ChromeAgent

\* The page in each of the browsers.
InitBrowsers == InitState /\ userAgent \in UserAgents

\* ------------------------------------------------------- pure functions
\* The catch block without its NotFoundError branch.
CheckMicrophonePermissionMessage_NoNotFound(name) ==
    IF name = "NotAllowedError" THEN MsgMicDenied
    ELSE IF name = "NotSupportedError" THEN MsgMicNotSupported
    ELSE MsgMicFailed

\* The catch block of checkMicrophonePermission: err.name to message.
CheckMicrophonePermissionMessage(name) ==
    IF name = "NotAllowedError" THEN MsgMicDenied
    ELSE IF name = "NotFoundError" THEN MsgMicNotFound
    ELSE IF name = "NotSupportedError" THEN MsgMicNotSupported
    ELSE MsgMicFailed

\* The switch of recognition.onerror without its 'language-not-supported'
\* case.
ErrorMessage_NoLanguage(code) ==
    CASE code = <<"not-allowed">> -> MsgErrNotAllowed
      [] code = <<"no-speech">> -> MsgErrNoSpeech
      [] code = <<"audio-capture">> -> MsgErrAudioCapture
      [] code = <<"network">> -> MsgErrNetwork
      [] code = <<"service-not-allowed">> -> MsgErrService
      [] code = <<"bad-grammar">> -> MsgErrGrammar
      [] OTHER -> MsgErrOther(code)

\* The switch of recognition.onerror without its 'network' case.
ErrorMessage_NoNetwork(code) ==
    CASE code = <<"not-allowed">> -> MsgErrNotAllowed
      [] code = <<"no-speech">> -> MsgErrNoSpeech
      [] code = <<"audio-capture">> -> MsgErrAudioCapture
      [] code = <<"service-not-allowed">> -> MsgErrService
      [] code = <<"bad-grammar">> -> MsgErrGrammar
      [] code = <<"language-not-supported">> -> MsgErrLanguage
      [] OTHER -> MsgErrOther(code)

\* The switch of recognition.onerror: event.error to message.
ErrorMessage(code) ==
    CASE code = <<"not-allowed">> -> MsgErrNotAllowed
      [] code = <<"no-speech">> -> MsgErrNoSpeech
      [] code = <<"audio-capture">> -> MsgErrAudioCapture
      [] code = <<"network">> -> MsgErrNetwork
      [] code = <<"service-not-allowed">> -> MsgErrService
      [] code = <<"bad-grammar">> -> MsgErrGrammar
      [] code = <<"language-not-supported">> -> MsgErrLanguage
      [] OTHER -> MsgErrOther(code)

\* err.message alone, without the default text.
CaughtMessage_NoDefault(msg) == msg

\* err.message || 'Failed to start speech recognition. Please try again.'
CaughtMessage(msg) == IF msg = <<>> THEN MsgStartFailed ELSE msg

\* The loop of recognition.onresult over a batch.
RECURSIVE FinalTranscript(_)
FinalTranscript(batch) ==
    IF batch = <<>> THEN <<>>
    ELSE (IF Head(batch).isFinal THEN <<Head(batch).text>> ELSE <<>>)
            \o FinalTranscript(Tail(batch))

RECURSIVE InterimTranscript(_)
InterimTranscript(batch) ==
    IF batch = <<>> THEN <<>>
    ELSE (IF Head(batch).isFinal THEN <<>> ELSE <<Head(batch).text>>)
            \o InterimTranscript(Tail(batch))

\* The loop with setConfidence called for every result, final or not.
RECURSIVE BatchConfidence_EveryResult(_, _)
BatchConfidence_EveryResult(batch, conf) ==
    IF batch = <<>> THEN conf
    ELSE BatchConfidence_EveryResult(Tail(batch), Head(batch).conf)

\* The value of the last setConfidence call of the loop, or conf if there
\* is none.
RECURSIVE BatchConfidence(_, _)
BatchConfidence(batch, conf) ==
    IF batch = <<>> THEN conf
    ELSE BatchConfidence(Tail(batch),
                         IF Head(batch).isFinal THEN Head(batch).conf ELSE conf)

ResultTranscript(batch) == FinalTranscript(batch) \o InterimTranscript(batch)

\* The history of the results: the interim text that arrived last.
LatestInterim(batch, prev) ==
    IF InterimTranscript(batch) = <<>> THEN prev
    ELSE <<InterimTranscript(batch)[Len(InterimTranscript(batch))]>>

\* The history of the results: the confidence of the final result that
\* arrived last.
LatestFinal(batch, prev) ==
    LET finals == {i \in 1..Len(batch) : batch[i].isFinal}
    IN IF finals = {} THEN prev
       ELSE <<batch[CHOOSE i \in finals : \A j \in finals : j <= i].conf>>

\* The dependency [transcript] of the effect of VoiceRecorder has changed
\* from one render to the next.
EffectRuns(prev, cur) == cur # prev

\* The effect that passes the rendered transcript on, but in a closure of
\* the render before.
TranscriptEffect_Stale(prev, cur, last) ==
    IF EffectRuns(prev, cur) THEN prev ELSE last

\* The effect of VoiceRecorder after the render that follows a handler:
\* onTranscriptChange(transcript) when the dependency has changed.  The
\* result is the transcript of the latest call.
TranscriptEffect(prev, cur, last) ==
    IF EffectRuns(prev, cur) THEN cur ELSE last

\* The stream of n tracks getUserMedia resolves with.
MediaStream(n) == [i \in 1..n |-> "live"]

\* Only the first track of the stream is stopped.
StopTracks_FirstOnly(tracks) ==
    [i \in DOMAIN tracks |-> IF i = 1 THEN "ended" ELSE tracks[i]]

\* stream.getTracks().forEach(track => track.stop())
RECURSIVE StopTracks(_)
StopTracks(tracks) ==
    IF tracks = <<>> THEN <<>>
    ELSE <<"ended">> \o StopTracks(Tail(tracks))

\* checkMicrophonePermission returns true: the tracks of its stream that
\* are still live are left behind.
ProbeReturns ==
    \E n \in 1..MaxTracks :
        LET tracks == StopTracks(MediaStream(n))
        IN liveTracks' = liveTracks
            + Cardinality({i \in DOMAIN tracks : tracks[i] = "live"})

FirstUnused(p) ==
    /\ sess[p].phase = "unused"
    /\ \A q \in Starts : q < p => sess[q].phase # "unused"

\* ------------------------------------------------------------ operations
\* startListening without its isSupported check.
StartListening_NoSupportCheck ==
    \E p \in Starts :
        /\ FirstUnused(p)
        /\ IF hasMediaDevices
           THEN /\ error' = NoError
                /\ sess' = [sess EXCEPT ![p] = Session("perm", "no")]
                /\ UNCHANGED isListening
           ELSE /\ error' = CheckMicrophonePermissionMessage("Error")
                /\ isListening' = FALSE
                /\ sess' = [sess EXCEPT ![p] = Session("done", "no")]
        /\ UNCHANGED <<transcript, confidence, recognitionRef, environment,
                       liveTracks, component, history, lastFinal,
                       lastNotified>>

\* startListening up to its await (or to its end when nothing is awaited).
StartListening ==
    IF ~isSupported
    THEN /\ error' = MsgUnsupported
         /\ UNCHANGED <<isListening, transcript, confidence, recognitionRef,
                        sess, environment, liveTracks, component, history,
                        lastFinal, lastNotified>>
    ELSE \E p \in Starts :
            /\ FirstUnused(p)
            /\ IF hasMediaDevices
               THEN /\ error' = NoError
                    /\ sess' = [sess EXCEPT ![p] = Session("perm", "no")]
                    /\ UNCHANGED isListening
               ELSE /\ error' = CheckMicrophonePermissionMessage("Error")
                    /\ isListening' = FALSE
                    /\ sess' = [sess EXCEPT ![p] = Session("done", "no")]
            /\ UNCHANGED <<transcript, confidence, recognitionRef,
                           environment, liveTracks, component, history,
                           lastFinal, lastNotified>>

\* getUserMedia rejects with err.name = name; the catch of
\* checkMicrophonePermission rethrows and the catch of startListening runs.
PermissionRejected(p, name) ==
    /\ sess[p].phase = "perm"
    /\ error' = CheckMicrophonePermissionMessage(name)
    /\ isListening' = FALSE
    /\ sess' = [sess EXCEPT ![p] = Session("done", "no")]
    /\ UNCHANGED <<transcript, confidence, recognitionRef, environment,
                   liveTracks, component, history, lastFinal, lastNotified>>

\* getUserMedia resolves; startListening creates the recognizer, stores it
\* in recognitionRef and starts it.
PermissionGranted(p) ==
    /\ sess[p].phase = "perm"
    /\ recognitionRef' = p
    /\ sess' = [sess EXCEPT ![p] = Session("starting", "no")]
    /\ ProbeReturns
    /\ UNCHANGED <<hookState, environment, component, history, lastFinal,
                   lastNotified>>

\* getUserMedia resolves, and new SpeechRecognition() throws.
ConstructorThrows(p, msg) ==
    /\ sess[p].phase = "perm"
    /\ error' = CaughtMessage(msg)
    /\ isListening' = FALSE
    /\ sess' = [sess EXCEPT ![p] = Session("done", "no")]
    /\ ProbeReturns
    /\ UNCHANGED <<transcript, confidence, recognitionRef, environment,
                   component, history, lastFinal, lastNotified>>

\* getUserMedia resolves, and recognition.start() throws.
StartThrows(p, msg) ==
    /\ sess[p].phase = "perm"
    /\ recognitionRef' = p
    /\ error' = CaughtMessage(msg)
    /\ isListening' = FALSE
    /\ sess' = [sess EXCEPT ![p] = Session("done", "no")]
    /\ ProbeReturns
    /\ UNCHANGED <<transcript, confidence, environment, component, history,
                   lastFinal, lastNotified>>

\* recognition.onstart without its setError(null).
OnStart_KeepsError(h) ==
    /\ sess[h].phase = "starting"
    /\ isListening' = TRUE
    /\ sess' = [sess EXCEPT ![h].phase = "running"]
    /\ UNCHANGED <<transcript, confidence, error, recognitionRef, environment,
                   liveTracks, component, history, lastFinal, lastNotified>>

\* recognition.onstart of the recognizer of start h.
OnStart(h) ==
    /\ sess[h].phase = "starting"
    /\ isListening' = TRUE
    /\ error' = NoError
    /\ sess' = [sess EXCEPT ![h].phase = "running"]
    /\ UNCHANGED <<transcript, confidence, recognitionRef, environment,
                   liveTracks, component, history, lastFinal, lastNotified>>

\* recognition.onresult of the recognizer of start h: what the handler does.
ResultEvent(h, batch) ==
    /\ sess[h].phase = "running"
    /\ transcript' = ResultTranscript(batch)
    /\ confidence' = BatchConfidence(batch, confidence)
    /\ lastFinal' = LatestFinal(batch, lastFinal)
    /\ lastNotified' = TranscriptEffect(transcript, transcript', lastNotified)
    /\ UNCHANGED <<isListening, error, recognitionRef, sess, environment,
                   liveTracks, component>>

\* recognition.onresult.
OnResult(h, batch) == ResultEvent(h, batch) /\ UNCHANGED history

\* recognition.onresult, with the delivered results written to the history.
OnResultRecorded(h, batch) ==
    /\ ResultEvent(h, batch)
    /\ Len(recvFinals) + Len(FinalTranscript(batch)) <= MaxFinals
    /\ recvFinals' = recvFinals \o FinalTranscript(batch)
    /\ lastInterim' = LatestInterim(batch, lastInterim)

\* recognition.onerror without its setIsListening(false).
OnError_KeepsListening(h, code) ==
    /\ sess[h].phase \in {"starting", "running"}
    /\ error' = ErrorMessage(code)
    /\ sess' = [sess EXCEPT ![h].phase = "errored"]
    /\ UNCHANGED <<isListening, transcript, confidence, recognitionRef,
                   environment, liveTracks, component, history, lastFinal,
                   lastNotified>>

\* recognition.onerror of the recognizer of start h.
OnError(h, code) ==
    /\ sess[h].phase \in {"starting", "running"}
    /\ isListening' = FALSE
    /\ error' = ErrorMessage(code)
    /\ sess' = [sess EXCEPT ![h].phase = "errored"]
    /\ UNCHANGED <<transcript, confidence, recognitionRef, environment,
                   liveTracks, component, history, lastFinal, lastNotified>>

\* recognition.onend of the recognizer of start h.
OnEnd(h) ==
    /\ sess[h].phase \in {"starting", "running", "errored"}
    /\ isListening' = FALSE
    /\ sess' = [sess EXCEPT ![h] = Session("done", "no")]
    /\ UNCHANGED <<transcript, confidence, error, recognitionRef, environment,
                   liveTracks, component, history, lastFinal, lastNotified>>

\* stopListening.  A start that is suspended at its await remembers that
\* stopListening ran meanwhile.
StopListening ==
    /\ sess' = [p \in Starts |->
                    IF (p = recognitionRef /\ sess[p].phase # "done")
                       \/ sess[p].phase = "perm"
                    THEN [sess[p] EXCEPT !.stopped =
                            IF isListening THEN "listening" ELSE "idle"]
                    ELSE sess[p]]
    /\ recognitionRef' = NoHandle
    /\ isListening' = FALSE
    /\ UNCHANGED <<transcript, confidence, error, environment, liveTracks,
                   component, history, lastFinal, lastNotified>>

\* resetTranscript without its setError(null).
ResetTranscript_KeepsError ==
    /\ transcript' = <<>>
    /\ confidence' = 0
    /\ recvFinals' = <<>>
    /\ lastInterim' = <<>>
    /\ lastFinal' = <<>>
    /\ lastNotified' = TranscriptEffect(transcript, transcript', lastNotified)
    /\ UNCHANGED <<isListening, error, recognitionRef, sess, environment,
                   liveTracks, component>>

\* What a call of resetTranscript does.
ResetTranscriptCall ==
    /\ transcript' = <<>>
    /\ confidence' = 0
    /\ error' = NoError
    /\ recvFinals' = <<>>
    /\ lastInterim' = <<>>
    /\ lastFinal' = <<>>
    /\ lastNotified' = TranscriptEffect(transcript, transcript', lastNotified)
    /\ UNCHANGED <<isListening, recognitionRef, sess, environment,
                   liveTracks>>

\* resetTranscript.
ResetTranscript == ResetTranscriptCall /\ UNCHANGED component

\* handleToggleRecording of VoiceRecorder.
HandleToggleRecording ==
    IF isListening THEN StopListening ELSE StartListening

\* Everything but the result events.
Other ==
    \/ StartListening
    \/ StopListening
    \/ ResetTranscript
    \/ HandleToggleRecording
    \/ \E p \in Starts, name \in PlatformReasons : PermissionRejected(p, name)
    \/ \E p \in Starts : PermissionGranted(p)
    \/ \E p \in Starts, msg \in ThrownMessages : ConstructorThrows(p, msg)
    \/ \E p \in Starts, msg \in ThrownMessages : StartThrows(p, msg)
    \/ \E h \in Starts : OnStart(h)
    \/ \E h \in Starts, code \in ErrorCodes : OnError(h, code)
    \/ \E h \in Starts : OnEnd(h)

Next ==
    \/ Other
    \/ \E h \in Starts, batch \in Batches : OnResult(h, batch)

\* The hook; the history of the results is not written.
Spec == Init /\ [][Next]_vars

NextRecorded ==
    \/ Other
    \/ \E h \in Starts, batch \in Batches : OnResultRecorded(h, batch)

\* The hook, with the history of the delivered results.
SpecRecorded == Init /\ [][NextRecorded]_vars

\* VoiceRecorder is unmounted.  The hook registers no effect, so nothing of
\* it runs: the recognizers and the pending permission requests stay.
Unmount ==
    /\ mounted
    /\ mounted' = FALSE
    /\ UNCHANGED <<showPermissionHelp, hookState, recognitionRef, sess,
                   environment, liveTracks, history, lastFinal, lastNotified>>

\* After the unmount, a start that was suspended at its await goes on: the
\* permission request is rejected, or it is granted and the recognizer is
\* created, stored in recognitionRef and started.  React drops the state
\* updates of an unmounted component.
DetachedResume(p) ==
    /\ ~mounted
    /\ sess[p].phase = "perm"
    /\ \/ /\ sess' = [sess EXCEPT ![p] = Session("done", "no")]
          /\ UNCHANGED <<recognitionRef, liveTracks>>
       \/ /\ sess' = [sess EXCEPT ![p] = Session("starting", "no")]
          /\ recognitionRef' = p
          /\ ProbeReturns
    /\ UNCHANGED <<hookState, environment, history, lastFinal, lastNotified,
                   component>>

\* After the unmount, a recognizer raises its start, error or end event
\* (a result event changes nothing that is left).
DetachedEvent(h) ==
    /\ ~mounted
    /\ \/ /\ sess[h].phase = "starting"
          /\ sess' = [sess EXCEPT ![h].phase = "running"]
       \/ /\ sess[h].phase \in {"starting", "running"}
          /\ sess' = [sess EXCEPT ![h].phase = "errored"]
       \/ /\ sess[h].phase \in {"starting", "running", "errored"}
          /\ sess' = [sess EXCEPT ![h] = Session("done", "no")]
    /\ UNCHANGED <<hookState, recognitionRef, environment, liveTracks,
                   history, lastFinal, lastNotified, component>>

NextUnmount ==
    \/ mounted /\ Next
    \/ Unmount
    \/ \E p \in Starts : DetachedResume(p)
    \/ \E h \in Starts : DetachedEvent(h)

\* The hook in a component that can be unmounted.
SpecUnmount == Init /\ [][NextUnmount]_vars

\* The hook with an engine that does raise the start event of a recognizer
\* it has started, unless that recognizer fails or ends first.
SpecStarts == Spec /\ \A h \in Starts : WF_vars(OnStart(h))

\* ------------------------------------------------- what VoiceRecorder shows
\* String.prototype.includes, for a word that is a token of its own in
\* every message that has it.
Includes(msg, word) == \E i \in 1..Len(msg) : msg[i] = word

\* error.includes('denied') || error.includes('not-allowed')
IsPermissionError(msg) ==
    Includes(msg, "denied") \/ Includes(msg, "not-allowed")

\* The error box is rendered: the component did not return the notice for
\* an unsupported browser, and error is not null.
ErrorShown == isSupported /\ error # NoError

\* The button 'Show permission instructions', which opens the steps.
OffersPermissionInstructions == ErrorShown /\ IsPermissionError(error)

\* The button 'Try again' in place of it.
OffersTryAgain == ErrorShown /\ ~IsPermissionError(error)

\* getBrowserInstructions: the first of the four names that the agent
\* string includes decides.
GetBrowserInstructions(agent) ==
    IF Includes(agent, "Chrome") THEN
        [browser |-> "Chrome",
         steps |-> <<"Click the microphone icon in the address bar",
                     "Select \"Always allow\" for microphone access",
                     "Refresh the page and try again">>]
    ELSE IF Includes(agent, "Firefox") THEN
        [browser |-> "Firefox",
         steps |-> <<"Click the microphone icon in the address bar",
                     "Select \"Allow\" for microphone access",
                     "Refresh the page and try again">>]
    ELSE IF Includes(agent, "Safari") THEN
        [browser |-> "Safari",
         steps |-> <<"Go to Safari > Settings > Websites > Microphone",
                     "Set this website to \"Allow\"",
                     "Refresh the page and try again">>]
    ELSE IF Includes(agent, "Edge") THEN
        [browser |-> "Edge",
         steps |-> <<"Click the microphone icon in the address bar",
                     "Select \"Always allow\" for microphone access",
                     "Refresh the page and try again">>]
    ELSE
        [browser |-> "your browser",
         steps |-> <<"Look for a microphone icon in your address bar",
                     "Allow microphone access for this website",
                     "Refresh the page and try again">>]

\* The permission instructions are rendered, with the steps of
\* getBrowserInstructions().
PermissionHelpShown == showPermissionHelp /\ OffersPermissionInstructions

\* The button 'Try Again' under the permission instructions.
OffersTryAgainInHelp == PermissionHelpShown

\* A click on 'Show permission instructions'.
TogglePermissionHelp ==
    /\ OffersPermissionInstructions
    /\ showPermissionHelp' = ~showPermissionHelp
    /\ UNCHANGED <<hookState, recognitionRef, sess, environment, liveTracks,
                   mounted, history, lastFinal, lastNotified>>

\* handleRetry without its setShowPermissionHelp(false).
HandleRetry_KeepsHelp ==
    /\ OffersTryAgain \/ OffersTryAgainInHelp
    /\ ResetTranscriptCall
    /\ UNCHANGED <<mounted, showPermissionHelp>>

\* handleRetry of VoiceRecorder: a click on one of its two retry buttons.
HandleRetry ==
    /\ OffersTryAgain \/ OffersTryAgainInHelp
    /\ ResetTranscriptCall
    /\ showPermissionHelp' = FALSE
    /\ UNCHANGED mounted

NextHelp ==
    \/ Next
    \/ TogglePermissionHelp
    \/ HandleRetry

\* The hook and the error box of VoiceRecorder.
SpecHelp == Init /\ [][NextHelp]_vars

\* The same in each of the browsers.
SpecBrowsers == InitBrowsers /\ [][NextHelp]_vars

\* ------------------------------------------------------------ vocabulary
\* A start is in progress: it waits for the permission, or its recognizer
\* is the current one and waits for its start event.
StartInProgress ==
    \E p \in Starts :
        \/ sess[p].phase = "perm"
        \/ /\ sess[p].phase = "starting"
           /\ p = recognitionRef
           /\ sess[p].stopped = "no"

\* The recognition session of start h is active: started, and neither
\* stopped nor ended nor failed.
Active(h) == sess[h].phase \in {"starting", "running"} /\ sess[h].stopped = "no"

\* Some event of the recognizer of start h.
EventOf(h) ==
    \/ OnStart(h)
    \/ \E batch \in Batches : ResultEvent(h, batch)
    \/ \E code \in ErrorCodes : OnError(h, code)
    \/ OnEnd(h)

\* A step that takes the recognizer of start h from started to errored:
\* its error event, and nothing else, does that.
BecomesErrored(h) ==
    sess[h].phase \in {"starting", "running"} /\ sess'[h].phase = "errored"

\* A step that resumes start p after its await: the permission request was
\* rejected or granted, or the constructor or recognition.start() threw.
LeavesPermission(p) == sess[p].phase = "perm" /\ sess'[p].phase # "perm"

\* ---------------------------------------------------------------- claims

\* C1: after every result batch the transcript is the concatenation of the
\* texts of all final results received so far, in arrival order, followed
\* by the text of the most recent interim result (nothing if there is none).
C1_TranscriptAccumulates == transcript = recvFinals \o lastInterim

\* C2: startListening called while listening is a no-op: status, transcript,
\* confidence and error keep their values, no permission request is issued
\* and no recognizer is created or started.
C2_StartWhileListeningIsNoOp ==
    [][(isListening /\ StartListening)
        => UNCHANGED <<hookState, recognitionRef, sess>>]_vars

\* C3: an end event of an older recognizer, arriving after a later start
\* made the current recognizer and while that one is listening, leaves the
\* status Listening.
C3_StaleEndKeepsListening ==
    [][\A h \in Starts :
        (/\ OnEnd(h)
         /\ isListening
         /\ recognitionRef # NoHandle
         /\ h < recognitionRef
         /\ sess[recognitionRef].phase = "running")
        => isListening']_vars

\* C4: when stopListening ran while a start was suspended at the permission
\* request, the continuation of that start is ignored: it creates and
\* starts no recognizer and changes nothing of the hook.
C4_StoppedStartIsIgnored ==
    [][\A p \in Starts :
        (sess[p].phase = "perm" /\ sess[p].stopped # "no")
        => /\ sess'[p].phase \in {"perm", "done"}
           /\ recognitionRef' # p]_vars

\* C5: the status is Listening only if the start event fired for the
\* recognizer that is the current one, and the status becomes Listening only
\* through the start event of the current recognizer, never through the one
\* of a recognizer that was stopped or replaced.
C5_ListeningOnlyByCurrentStart ==
    [][/\ isListening'
          => /\ recognitionRef' # NoHandle
             /\ sess'[recognitionRef'].phase = "running"
       /\ (~isListening /\ isListening')
          => \E h \in Starts :
                /\ OnStart(h)
                /\ h = recognitionRef
                /\ sess[h].stopped = "no"]_vars

\* C6: when the status is Idle and no start is in progress, the hook holds
\* no recognizer and no recognition session it created is active.
C6_IdleHoldsNoHandle ==
    (~isListening /\ ~StartInProgress)
        => /\ recognitionRef = NoHandle
           /\ \A h \in Starts : ~Active(h)

\* C7: when the status is Listening, the hook holds a recognizer and the
\* recognition session of that recognizer is active.
C7_ListeningHoldsActiveHandle ==
    isListening => (recognitionRef # NoHandle /\ Active(recognitionRef))

\* C8: after stopListening was called while listening, every further event
\* of the recognizer that was stopped leaves transcript, confidence and
\* status unchanged.
C8_EventsAfterStopAreDropped ==
    [][\A h \in Starts :
        (sess[h].stopped = "listening" /\ EventOf(h))
        => UNCHANGED <<transcript, confidence, isListening>>]_vars

\* C9: once a later start has allocated a new recognizer, every result or
\* error event of an earlier recognizer changes none of transcript,
\* confidence, error and status.
C9_EventsOfReplacedHandleAreDropped ==
    [][\A h \in Starts :
        (/\ recognitionRef # NoHandle
         /\ h < recognitionRef
         /\ \/ \E batch \in Batches : ResultEvent(h, batch)
            \/ \E code \in ErrorCodes : OnError(h, code))
        => UNCHANGED hookState]_vars

\* C10: when the permission request of a start fails, error becomes the
\* message of the kind that belongs to the platform reason (NotAllowedError:
\* permission denied, NotFoundError: device not found, NotSupportedError:
\* device unsupported, anything else: device unavailable), the status is
\* Idle right afterwards, and that start creates and starts no recognizer.
C10_PermissionFailureIsReported ==
    [][\A p \in Starts, name \in PlatformReasons :
        PermissionRejected(p, name)
        => /\ error' = (CASE name = "NotAllowedError" -> MsgMicDenied
                          [] name = "NotFoundError" -> MsgMicNotFound
                          [] name = "NotSupportedError" -> MsgMicNotSupported
                          [] OTHER -> MsgMicFailed)
           /\ ~isListening'
           /\ recognitionRef' = recognitionRef
           /\ sess' = [sess EXCEPT ![p] = Session("done", "no")]]_vars

\* C10 happens: a permission request was rejected with NotAllowedError while
\* the recognizer of another start was listening.
C10_Witness ==
    \E p \in Starts :
        /\ sess[p].phase = "done"
        /\ hasMediaDevices
        /\ error = MsgMicDenied
        /\ ~isListening
        /\ \E q \in Starts : sess[q].phase = "running"

\* C11: when speech recognition is not supported, startListening sets error
\* to the unsupported message, leaves the status Idle and the transcript
\* and the confidence as they are, issues no permission request and creates
\* no recognizer.
C11_UnsupportedStartOnlyReports ==
    [][(~isSupported /\ StartListening)
        => /\ error' = MsgUnsupported
           /\ ~isListening /\ ~isListening'
           /\ UNCHANGED <<transcript, confidence, recognitionRef>>
           /\ \A p \in Starts : sess'[p].phase = "unused"]_vars

\* C11 happens: startListening was called without speech recognition, with
\* or without navigator.mediaDevices.
C11_Witness ==
    /\ ~isSupported
    /\ error = MsgUnsupported
    /\ ~isListening
    /\ recognitionRef = NoHandle
    /\ \A p \in Starts : sess[p].phase = "unused"

\* C12: on every error event of the recognizer the hook holds, the status
\* becomes Idle and error becomes the message that belongs to the reported
\* code, while the transcript and the confidence keep their values.
C12_ErrorEventIsReported ==
    [][\A h \in Starts : (BecomesErrored(h) /\ recognitionRef = h) =>
       \A code \in ErrorCodes :
        OnError(h, code)
        => /\ ~isListening'
           /\ error' =
                (CASE code = <<"not-allowed">> -> MsgErrNotAllowed
                   [] code = <<"no-speech">> -> MsgErrNoSpeech
                   [] code = <<"audio-capture">> -> MsgErrAudioCapture
                   [] code = <<"network">> -> MsgErrNetwork
                   [] code = <<"service-not-allowed">> -> MsgErrService
                   [] code = <<"bad-grammar">> -> MsgErrGrammar
                   [] code = <<"language-not-supported">> -> MsgErrLanguage
                   [] OTHER -> <<"Speech", "recognition", "error", ":">>
                                \o code
                                \o <<".", "Please", "try", "again", ".">>)
           /\ UNCHANGED <<transcript, confidence>>]_vars

\* C12 happens: the held recognizer reported 'network' after results had
\* been shown; the transcript and the confidence are still there.
C12_Witness ==
    \E h \in Starts :
        /\ recognitionRef = h
        /\ sess[h].phase = "errored"
        /\ \A q \in Starts : q # h => sess[q].phase = "unused"
        /\ error = MsgErrNetwork
        /\ ~isListening
        /\ transcript = <<"sun", "over">>
        /\ confidence = 92

\* The kinds of the error events, and the messages recognition.onerror
\* stores for each of them.
ErrorEventKinds ==
    {"PermissionDenied", "NoSpeechDetected", "DeviceUnavailable",
     "NetworkError", "ServiceDenied", "ConfigurationError", "Unknown"}

KindMessages(kind) ==
    CASE kind = "PermissionDenied" -> {MsgErrNotAllowed}
      [] kind = "NoSpeechDetected" -> {MsgErrNoSpeech}
      [] kind = "DeviceUnavailable" -> {MsgErrAudioCapture}
      [] kind = "NetworkError" -> {MsgErrNetwork}
      [] kind = "ServiceDenied" -> {MsgErrService}
      [] kind = "ConfigurationError" -> {MsgErrGrammar, MsgErrLanguage}
      [] kind = "Unknown" -> {MsgErrOther(c) : c \in ErrorCodes}

\* C13: the classification of an error event depends on its code alone, in
\* every status and whatever the transcript, the confidence and the earlier
\* error are, and yields exactly one kind: not-allowed PermissionDenied,
\* no-speech NoSpeechDetected, audio-capture DeviceUnavailable, network
\* NetworkError, service-not-allowed ServiceDenied, bad-grammar and
\* language-not-supported both ConfigurationError, and every other code
\* Unknown carrying that code.
C13_ClassificationByCodeAlone ==
    [][\A h \in Starts : BecomesErrored(h) =>
       \A code \in ErrorCodes :
        OnError(h, code)
        => LET kind ==
                CASE code = <<"not-allowed">> -> "PermissionDenied"
                  [] code = <<"no-speech">> -> "NoSpeechDetected"
                  [] code = <<"audio-capture">> -> "DeviceUnavailable"
                  [] code = <<"network">> -> "NetworkError"
                  [] code = <<"service-not-allowed">> -> "ServiceDenied"
                  [] code \in {<<"bad-grammar">>,
                               <<"language-not-supported">>}
                        -> "ConfigurationError"
                  [] OTHER -> "Unknown"
           IN /\ {k \in ErrorEventKinds : error' \in KindMessages(k)} = {kind}
              /\ kind = "Unknown" => error' = MsgErrOther(code)]_vars

\* C13 happens: a recognizer the hook no longer holds reported a code that
\* is not in the table, while another error was shown.
C13_Witness ==
    \E h \in Starts :
        /\ sess[h].phase = "errored"
        /\ recognitionRef # h
        /\ error = MsgErrOther(<<"aborted">>)
        /\ ~isListening

\* C14: the permission instructions are offered exactly when the shown
\* error is of the kind PermissionDenied (the message of a rejected
\* permission request with NotAllowedError or of the error code
\* not-allowed); for every other shown error, a thrown start failure's
\* message included, only 'Try again' is offered.
C14_InstructionsOnlyForPermissionDenied ==
    /\ OffersPermissionInstructions
        <=> (ErrorShown /\ error \in {MsgMicDenied, MsgErrNotAllowed})
    /\ OffersTryAgain
        <=> (ErrorShown /\ error \notin {MsgMicDenied, MsgErrNotAllowed})

\* C15: resetTranscript, in whatever state it is called, sets the
\* transcript to empty, the confidence to zero and error to none, and
\* leaves the status and the held recognizer as they are.
C15_ResetClearsOnlyTheResults ==
    [][ResetTranscript
        => /\ transcript' = <<>>
           /\ confidence' = 0
           /\ error' = NoError
           /\ UNCHANGED <<isListening, recognitionRef, sess>>]_vars

\* C15 happens: the only recognizer there is has reported an error and is
\* still held, and the error is gone without a new start: resetTranscript
\* has cleared it.
C15_Witness ==
    \E h \in Starts :
        /\ sess[h].phase = "errored"
        /\ recognitionRef = h
        /\ \A q \in Starts : q # h => sess[q].phase = "unused"
        /\ error = NoError
        /\ transcript = <<>>
        /\ confidence = 0
        /\ ~isListening

\* C16: stopListening called while the status is not Listening is a no-op:
\* status, transcript, confidence and error keep their values and no
\* recognizer that has been started and has not ended is told to stop.
C16_StopWhileIdleIsNoOp ==
    [][(~isListening /\ StopListening)
        => /\ UNCHANGED hookState
           /\ \A p \in Starts :
                sess[p].phase \in {"starting", "running", "errored"}
                => sess'[p].stopped = sess[p].stopped]_vars

\* C17: stopListening called while the status is Listening tells the held
\* recognizer, which is the listening one, to stop and sets the status to
\* Idle in the same step; an end event of that recognizer that arrives
\* afterwards changes nothing.
C17_StopWhileListening ==
    [][/\ (isListening /\ StopListening)
            => /\ ~isListening'
               /\ recognitionRef # NoHandle
               /\ sess[recognitionRef].phase = "running"
               /\ sess'[recognitionRef].stopped = "listening"
       /\ \A h \in Starts :
            (sess[h].stopped = "listening" /\ OnEnd(h))
            => UNCHANGED hookState]_vars

\* C18: whatever the permission request and the engine do, startListening
\* ends normally: a missing getUserMedia, a rejected permission request, a
\* throwing constructor or recognition.start() end the call with the
\* failure recorded in error and the status Idle, and a later error event
\* of the engine is recorded the same way.
C18_FailuresAreRecorded ==
    [][/\ (StartListening /\ isSupported /\ ~hasMediaDevices)
            => /\ error' # NoError
               /\ ~isListening'
               /\ \A p \in Starts : sess'[p].phase \in {"unused", "done"}
       /\ \A p \in Starts : LeavesPermission(p) =>
            ((\/ \E name \in PlatformReasons : PermissionRejected(p, name)
              \/ \E msg \in ThrownMessages : ConstructorThrows(p, msg)
              \/ \E msg \in ThrownMessages : StartThrows(p, msg))
             => /\ error' # NoError
                /\ ~isListening'
                /\ sess'[p].phase = "done")
       /\ \A h \in Starts : BecomesErrored(h) =>
            \A code \in ErrorCodes :
                OnError(h, code) => (error' # NoError /\ ~isListening')]_vars

\* C18 happens: the constructor or recognition.start() threw an exception
\* without a message while another recognizer was listening; the default
\* text is in error and the status is Idle.
C18_Witness ==
    \E p \in Starts :
        /\ sess[p].phase = "done"
        /\ error = MsgStartFailed
        /\ ~isListening
        /\ \E q \in Starts : sess[q].phase = "running"

C20_StartAfterFailureRecovers ==
    \A p \in Starts :
        (sess[p].phase = "starting")
            ~> \/ isListening /\ error = NoError
               \/ sess[p].phase \in {"errored", "done"}

\* C20 happens: the first start failed and left its message in error with
\* the status Idle; the second start was granted and its recognizer raised
\* the start event: the status is Listening and the error is cleared.
C20_Witness ==
    /\ MaxStarts >= 2
    /\ sess[1].phase = "done"
    /\ sess[2].phase = "running"
    /\ recognitionRef = 2
    /\ isListening
    /\ error = NoError

\* C21: once the component is unmounted, no recognizer the hook started is
\* left running without having been told to stop, and the hook holds no
\* recognizer.
C21_UnmountStopsAndReleases ==
    ~mounted
    => /\ recognitionRef = NoHandle
       /\ \A p \in Starts :
            sess[p].phase \in {"starting", "running"}
            => sess[p].stopped # "no"

\* C22: onTranscriptChange is called after every result event and after
\* every resetTranscript.
C22_NotifiedAfterEveryUpdate ==
    [][((\E h \in Starts, batch \in Batches : ResultEvent(h, batch))
        \/ ResetTranscript)
       => EffectRuns(transcript, transcript')]_vars

\* C22, amended: the transcript passed to onTranscriptChange last is in
\* every state the current transcript, and onTranscriptChange is called only
\* after a step that changes the transcript: a result event or a
\* resetTranscript that leaves the same text causes no call.
C22_NotifiedOfEveryChange ==
    /\ lastNotified = transcript
    /\ [][/\ lastNotified' = transcript'
          /\ lastNotified' # lastNotified => transcript' # transcript]_vars

\* C22 happens: a result event has changed the transcript and
\* onTranscriptChange was called with the new text.
C22_Witness ==
    /\ transcript = <<"sun", "over">>
    /\ lastNotified = <<"sun", "over">>

\* C23: whenever the microphone permission request has returned, with
\* success or with a failure, no track of a stream it obtained is live.
C23_ProbeLeavesNoLiveTrack == liveTracks = 0

\* C23 happens: one permission request was granted and its recognizer
\* started, another one was rejected with NotAllowedError.
C23_Witness ==
    /\ liveTracks = 0
    /\ \E p \in Starts : sess[p].phase = "starting"
    /\ \E q \in Starts : sess[q].phase = "done"
    /\ error = MsgMicDenied

\* C24: after a result event with several interim results, the transcript
\* holds the text of the last interim result only: the interim texts in it
\* are that one text, or none when the event has no interim result.
C24_LaterInterimSupersedes ==
    [][\A h \in Starts, batch \in Batches :
        ResultEvent(h, batch)
        => LET interims == {i \in 1..Len(batch) : ~batch[i].isFinal}
               texts == {r.text : r \in {x \in Results : ~x.isFinal}}
           IN SelectSeq(transcript', LAMBDA t : t \in texts)
                = IF interims = {} THEN <<>>
                  ELSE <<batch[CHOOSE i \in interims :
                                \A j \in interims : j <= i].text>>]_vars

\* C25: after a result event whose last result is final and comes after an
\* interim result, the transcript ends with the text of that final result
\* and holds no interim text.
C25_FinalClearsPending ==
    [][\A h \in Starts, batch \in Batches :
        (/\ ResultEvent(h, batch)
         /\ batch[Len(batch)].isFinal
         /\ \E i \in 1..Len(batch) : ~batch[i].isFinal)
        => LET texts == {r.text : r \in {x \in Results : ~x.isFinal}}
           IN /\ transcript' # <<>>
              /\ transcript'[Len(transcript')] = batch[Len(batch)].text
              /\ \A k \in 1..Len(transcript') : transcript'[k] \notin texts]_vars

\* C26: at any time at most one recognizer the hook created is active:
\* started and neither stopped nor ended.
C26_AtMostOneActiveSession ==
    Cardinality({p \in Starts : Active(p)}) <= 1

\* C27: in every state the status Listening implies that error is none:
\* every step that puts a message into error leaves the status Idle, and
\* every step that turns the status to Listening leaves error none.
C27_ListeningHasNoError ==
    /\ isListening => error = NoError
    /\ [][/\ isListening' => error' = NoError
          /\ (error' # NoError /\ error' # error) => ~isListening'
          /\ (isListening' /\ ~isListening) => error' = NoError]_vars

\* C27 happens: a recognizer has reported an error, and the start event of
\* another one has since turned the status to Listening and cleared error.
C27_Witness ==
    /\ isListening
    /\ error = NoError
    /\ \E h \in Starts : sess[h].phase = "errored"
    /\ \E q \in Starts : sess[q].phase = "running"

\* C28: when the browser has no navigator.mediaDevices.getUserMedia,
\* startListening ends with the status Idle and with error saying that
\* microphone access is not supported, not with the general failure text.
C28_MissingGetUserMediaIsUnsupported ==
    [][(StartListening /\ isSupported /\ ~hasMediaDevices)
        => /\ ~isListening'
           /\ error' \in {MsgMicNoGetUserMedia, MsgMicNotSupported}]_vars

\* C29: handleRetry, whenever one of its buttons is there to be clicked,
\* clears error, the transcript and the confidence and hides the permission
\* instructions; it leaves the status as it is and issues no permission
\* request and no start or stop of a recognizer.
C29_RetryOnlyClears ==
    [][HandleRetry
        => /\ error' = NoError
           /\ transcript' = <<>>
           /\ confidence' = 0
           /\ ~showPermissionHelp'
           /\ UNCHANGED <<isListening, recognitionRef, sess, liveTracks>>]_vars

\* C29 happens: the browser has no getUserMedia, so the only start there
\* was has failed and shown 'Try again'; the message is gone, the
\* instructions are hidden and nothing else was started.
C29_Witness ==
    /\ isSupported
    /\ ~hasMediaDevices
    /\ sess[1].phase = "done"
    /\ \A q \in Starts : q # 1 => sess[q].phase = "unused"
    /\ error = NoError
    /\ ~showPermissionHelp
    /\ ~isListening


\* C30: the instructions shown depend on the agent string alone and are
\* one of the five entries; the generic entry is shown exactly when the
\* string includes none of Chrome, Firefox, Safari and Edge; and a browser
\* of one of the four families is shown the entry of its family.
C30_InstructionsOfTheFamily ==
    PermissionHelpShown
        => LET shown == GetBrowserInstructions(userAgent).browser
           IN /\ shown \in {b.family : b \in Browsers}
              /\ shown = "your browser"
                    <=> \A name \in {"Chrome", "Firefox", "Safari", "Edge"} :
                            ~Includes(userAgent, name)
              /\ \A b \in Browsers : b.agent = userAgent => shown = b.family

====
